---- MODULE Spec2Model ----
(***************************************************************************)
(* Model of the gmail_cli interactive controller (TerminalUI::run_app and  *)
(* its handlers) over the mailbox store (App), in the three revisions of   *)
(* the controller kept in the repository: src/main.rs, src/terminal_ui.rs  *)
(* and src/ui.rs (with src/app.rs).  Indices are 0-based as in the code;   *)
(* TLA+ sequences are 1-based, so emails.get(i) reads emails[i + 1].       *)
(***************************************************************************)
EXTENDS Integers, Sequences, FiniteSets, TLC

VARIABLES
    rev,             \* which revision of the controller runs
    emails,          \* App.emails : Vec<Email>
    current_index,   \* App.current_index : usize
    scroll_offset,   \* TerminalUI.scroll_offset : usize
    status_message,  \* TerminalUI.status_message : String
    term_height,     \* terminal.size().height
    pc,              \* position of run_app: in the loop, returned, panicked
    last             \* the event handled last, its inputs and the state it was received in

vars == <<rev, emails, current_index, scroll_offset, status_message, term_height, pc, last>>

---------------------------------------------------------------------------
(* Bounds of the model *)

\* longest inbox the initial fetch delivers in the model (the code asks for maxResults=10)
MaxEmails == 3
\* scroll_offset is cut off here in the revision that never caps it (main.rs)
MaxScroll == 40

(* Program constants *)

\* the fixed scroll step of PageUp / PageDown
ScrollStep == 10
\* rows the borders and the status bar take from the terminal height
ChromeRows == 6
\* usize arithmetic is modulo 2^64; 2^30 stands in for it (TLC integers are 32 bit)
UsizeModulus == 2^30

Revisions == {"main", "terminal_ui", "ui"}
\* terminal heights the model runs at: one below the six chrome rows, one above
TermHeights == {4, 8}

---------------------------------------------------------------------------
(* Strings are sequences of one-character strings *)

StartsWith(s, p) == Len(s) >= Len(p) /\ SubSeq(s, 1, Len(p)) = p

Http == <<"h", "t", "t", "p">>
Mailto == <<"m", "a", "i", "l", "t", "o", ":">>

\* Option<T>: None is the empty sequence, Some(x) the one-element sequence
None == <<>>
Some(x) == <<x>>

\* Result<T, E>
Ok(v) == [ok |-> TRUE, val |-> v]
Err(e) == [ok |-> FALSE, val |-> e]

\* a body of n lines, each "x\n"
BodyOfLines(n) == [k \in 1..(2 * n) |-> IF k % 2 = 1 THEN "x" ELSE "\n"]

\* str::lines().count(): a final line needs no terminator, an empty string has no line
RECURSIVE CountNewlines(_)
CountNewlines(s) ==
    IF s = <<>> THEN 0
    ELSE (IF Head(s) = "\n" THEN 1 ELSE 0) + CountNewlines(Tail(s))

LinesCount(s) ==
    CountNewlines(s) + (IF s # <<>> /\ s[Len(s)] # "\n" THEN 1 ELSE 0)

\* the messages the remote service may list: Email { id, subject, body, unsubscribe_link }
Catalogue ==
    <<  [id |-> 1, subject |-> <<"a">>, body |-> BodyOfLines(25),
         unsubscribe_link |-> Some(Http \o <<"s", ":", "u">>)],
        [id |-> 2, subject |-> <<"b">>, body |-> BodyOfLines(7),
         unsubscribe_link |-> Some(Mailto \o <<"x", "@", "y">>)],
        [id |-> 3, subject |-> <<"c">>, body |-> BodyOfLines(12) \o <<"e", "n", "d">>,
         unsubscribe_link |-> Some(<<"u", "n", "s", "u", "b">>)],
        [id |-> 4, subject |-> <<"d">>, body |-> <<"x">>,
         unsubscribe_link |-> None] >>

\* the inboxes an initial fetch can deliver: listing order, distinct ids
RECURSIVE Ascending(_)
Ascending(ids) ==
    IF Len(ids) <= 1 THEN TRUE
    ELSE ids[1] < ids[2] /\ Ascending(Tail(ids))

Inboxes ==
    { [k \in 1..Len(ids) |-> Catalogue[ids[k]]] :
        ids \in { s \in UNION { [1..n -> 1..Len(Catalogue)] : n \in 0..MaxEmails } :
                    Ascending(s) } }

---------------------------------------------------------------------------
(* usize arithmetic *)

SaturatingSub(a, b) == IF a >= b THEN a - b ELSE 0
Min(a, b) == IF a <= b THEN a ELSE b
WrappingSub(a, b) == (a - b + UsizeModulus) % UsizeModulus

\* Vec::get(i)
Get(v, i) == IF i < Len(v) THEN Some(v[i + 1]) ELSE None

\* Vec::remove(i), i < len
VecRemove(v, i) == [k \in 1..(Len(v) - 1) |-> IF k <= i THEN v[k] ELSE v[k + 1]]

---------------------------------------------------------------------------
(* Messages shown to the user are sequences of text pieces: a literal of the
   code is one piece, an interpolated string contributes its characters. *)

MarkedAsRead == <<"Email marked as read.">>
ErrorMarking == <<"Error marking email as read: ">>
ErrorUnsubscribing == <<"Error unsubscribing: ">>
LinkOpened == <<"Unsubscribe link opened.">>
FailedToOpen == <<"Failed to open unsubscribe link: ">>
UnsupportedOS == <<"Unsupported operating system">>
SpawnError == <<"No such file or directory (os error 2)">>
MailtoNotice == <<"This email uses a mailto link for unsubscribing. Please send an email to ">>
UnsupportedMethod == <<"Unsupported unsubscribe method: ">>
NoLinkFound == <<"No unsubscribe link found for this email.">>
NoEmailSelected == <<"No email selected.">>
NoToken == <<"No token available">>
SendError == <<"error sending request">>

\* what can happen to the POST of GmailClient::mark_as_read
RemoteOutcomes == {"no_token", "send_error", "status_2xx", "status_4xx"}
\* what can happen when the link opener is spawned
OpenOutcomes == {"unsupported_os", "spawn_error", "exit_ok", "exit_fail"}

\* GmailClient::mark_as_read: only a missing token and a failed send are errors;
\* the response is dropped without looking at its status
GmailClient_mark_as_read(outcome) ==
    CASE outcome = "no_token" -> Err(NoToken)
      [] outcome = "send_error" -> Err(SendError)
      [] OTHER -> Ok(<<>>)

\* App::mark_as_read with the clamp of current_index left out
App_mark_as_read_NoClamp(es, ci, outcome) ==
    IF Get(es, ci) # None
    THEN LET r == GmailClient_mark_as_read(outcome) IN
         IF ~r.ok
         THEN [emails |-> es, current_index |-> ci, result |-> r, sent |-> Some(es[ci + 1].id)]
         ELSE [emails |-> VecRemove(es, ci), current_index |-> ci,
               result |-> Ok(<<>>), sent |-> Some(es[ci + 1].id)]
    ELSE [emails |-> es, current_index |-> ci, result |-> Ok(<<>>), sent |-> None]

\* App::mark_as_read removing the message before the remote call's result is looked at
App_mark_as_read_RemoveFirst(es, ci, outcome) ==
    IF Get(es, ci) # None
    THEN LET r == GmailClient_mark_as_read(outcome)
             es2 == VecRemove(es, ci)
         IN [emails |-> es2,
             current_index |-> IF ci >= Len(es2) THEN SaturatingSub(Len(es2), 1) ELSE ci,
             result |-> r, sent |-> Some(es[ci + 1].id)]
    ELSE [emails |-> es, current_index |-> ci, result |-> Ok(<<>>), sent |-> None]

\* App::mark_as_read removing the first message instead of the selected one
App_mark_as_read_RemoveHead(es, ci, outcome) ==
    IF Get(es, ci) # None
    THEN LET r == GmailClient_mark_as_read(outcome) IN
         IF ~r.ok
         THEN [emails |-> es, current_index |-> ci, result |-> r, sent |-> Some(es[ci + 1].id)]
         ELSE LET es2 == VecRemove(es, 0) IN
              [emails |-> es2,
               current_index |-> IF ci >= Len(es2) THEN SaturatingSub(Len(es2), 1) ELSE ci,
               result |-> Ok(<<>>), sent |-> Some(es[ci + 1].id)]
    ELSE [emails |-> es, current_index |-> ci, result |-> Ok(<<>>), sent |-> None]

\* App::mark_as_read removing with Vec::swap_remove: the last message takes the
\* place of the removed one
App_mark_as_read_SwapRemove(es, ci, outcome) ==
    IF Get(es, ci) # None
    THEN LET r == GmailClient_mark_as_read(outcome) IN
         IF ~r.ok
         THEN [emails |-> es, current_index |-> ci, result |-> r, sent |-> Some(es[ci + 1].id)]
         ELSE LET es2 == [k \in 1..(Len(es) - 1) |-> IF k = ci + 1 THEN es[Len(es)] ELSE es[k]] IN
              [emails |-> es2,
               current_index |-> IF ci >= Len(es2) THEN SaturatingSub(Len(es2), 1) ELSE ci,
               result |-> Ok(<<>>), sent |-> Some(es[ci + 1].id)]
    ELSE [emails |-> es, current_index |-> ci, result |-> Ok(<<>>), sent |-> None]

\* App::mark_as_read: the remote call for the selected message, then (only if it
\* returned Ok) remove the message and clamp current_index
App_mark_as_read(es, ci, outcome) ==
    IF Get(es, ci) # None
    THEN LET r == GmailClient_mark_as_read(outcome) IN
         IF ~r.ok
         THEN [emails |-> es, current_index |-> ci, result |-> r, sent |-> Some(es[ci + 1].id)]
         ELSE LET es2 == VecRemove(es, ci) IN
              [emails |-> es2,
               current_index |-> IF ci >= Len(es2) THEN SaturatingSub(Len(es2), 1) ELSE ci,
               result |-> Ok(<<>>), sent |-> Some(es[ci + 1].id)]
    ELSE [emails |-> es, current_index |-> ci, result |-> Ok(<<>>), sent |-> None]

\* App::unsubscribe cutting six characters off a mailto link instead of seven
App_unsubscribe_StripSix(es, ci, open) ==
    IF Get(es, ci) # None
    THEN LET email == es[ci + 1] IN
         IF email.unsubscribe_link # None
         THEN LET link == email.unsubscribe_link[1] IN
              IF StartsWith(link, Http)
              THEN CASE open = "unsupported_os" -> Err(UnsupportedOS)
                     [] open = "spawn_error" -> Err(SpawnError)
                     [] open = "exit_ok" -> Ok(LinkOpened)
                     [] OTHER -> Err(FailedToOpen \o link)
              ELSE IF StartsWith(link, Mailto)
              THEN Ok(MailtoNotice \o SubSeq(link, 7, Len(link)))
              ELSE Ok(UnsupportedMethod \o link)
         ELSE Ok(NoLinkFound)
    ELSE Ok(NoEmailSelected)

\* App::unsubscribe (&self: it cannot touch the store); open is what the opener does
App_unsubscribe(es, ci, open) ==
    IF Get(es, ci) # None
    THEN LET email == es[ci + 1] IN
         IF email.unsubscribe_link # None
         THEN LET link == email.unsubscribe_link[1] IN
              IF StartsWith(link, Http)
              THEN CASE open = "unsupported_os" -> Err(UnsupportedOS)
                     [] open = "spawn_error" -> Err(SpawnError)
                     [] open = "exit_ok" -> Ok(LinkOpened)
                     [] OTHER -> Err(FailedToOpen \o link)
              ELSE IF StartsWith(link, Mailto)
              THEN Ok(MailtoNotice \o SubSeq(link, 8, Len(link)))
              ELSE Ok(UnsupportedMethod \o link)
         ELSE Ok(NoLinkFound)
    ELSE Ok(NoEmailSelected)

\* does App::unsubscribe reach the link opener?
NeedsOpener(es, ci) ==
    /\ Get(es, ci) # None
    /\ es[ci + 1].unsubscribe_link # None
    /\ StartsWith(es[ci + 1].unsubscribe_link[1], Http)

---------------------------------------------------------------------------
(* The handlers of the controller, as functions of what they read *)

\* handle_up that wraps from the first message to the last
handle_up_Wrap(es, ci, so) ==
    IF ci > 0
    THEN [current_index |-> ci - 1, scroll_offset |-> 0]
    ELSE [current_index |-> SaturatingSub(Len(es), 1), scroll_offset |-> 0]

\* handle_up that forgets the scroll reset
handle_up_NoReset(es, ci, so) ==
    IF ci > 0
    THEN [current_index |-> ci - 1, scroll_offset |-> so]
    ELSE [current_index |-> ci, scroll_offset |-> so]

\* KeyCode::Up, the same in the three revisions
handle_up(es, ci, so) ==
    IF ci > 0
    THEN [current_index |-> ci - 1, scroll_offset |-> 0]
    ELSE [current_index |-> ci, scroll_offset |-> so]

\* KeyCode::Down, the same in the three revisions
handle_down(es, ci, so) ==
    IF ci < SaturatingSub(Len(es), 1)
    THEN [current_index |-> ci + 1, scroll_offset |-> 0]
    ELSE [current_index |-> ci, scroll_offset |-> so]

\* the status a mark-read event leaves
MarkReadStatus(result) ==
    IF result.ok THEN MarkedAsRead ELSE ErrorMarking \o result.val

\* the status an unsubscribe event leaves
UnsubscribeStatus(result) ==
    IF result.ok THEN result.val ELSE ErrorUnsubscribing \o result.val

\* PageUp with a plain subtraction on a usize
handle_page_up_Wrapping(r, so) == WrappingSub(so, ScrollStep)

\* KeyCode::PageUp: main.rs guards the saturating subtraction with scroll_offset > 0
handle_page_up(r, so) ==
    IF r = "main"
    THEN (IF so > 0 THEN SaturatingSub(so, ScrollStep) ELSE so)
    ELSE SaturatingSub(so, ScrollStep)

\* terminal.size().height as usize - 6 with overflow checks off
VisibleHeight(h) == WrappingSub(h, ChromeRows)

\* the subtraction overflows: a panic with overflow checks on
VisibleHeightOverflows(h) == h < ChromeRows

\* KeyCode::PageDown of terminal_ui.rs and ui.rs, once the terminal size is known
handle_page_down(es, ci, so, h) ==
    IF Get(es, ci) # None
    THEN LET content_height == LinesCount(es[ci + 1].body)
             max_scroll == SaturatingSub(content_height, VisibleHeight(h))
         IN Min(so + ScrollStep, max_scroll)
    ELSE so

\* KeyCode::PageDown of main.rs
Main_page_down(so) == so + ScrollStep

---------------------------------------------------------------------------
(* What a handler does to the locks, the store, the remote service and the
   link opener, in program order: a sequence of events [op, arg]. *)

Ev(op, arg) == [op |-> op, arg |-> arg]

\* App::mark_as_read removing the message while the remote call is still pending
App_mark_as_read_trace_RemoveBeforeReturn(es, ci, outcome) ==
    IF Get(es, ci) # None
    THEN LET id == es[ci + 1].id
             r == GmailClient_mark_as_read(outcome)
         IN <<Ev("lock_client", 0), Ev("call", id)>>
            \o (IF r.ok THEN <<Ev("remove", id), Ev("clamp", 0)>> ELSE <<>>)
            \o <<Ev(IF r.ok THEN "ret_ok" ELSE "ret_err", id), Ev("unlock_client", 0)>>
    ELSE <<>>

\* App::mark_as_read: the client guard is a temporary of the call statement, so it
\* is dropped when the statement ends, also when `?` returns the error
App_mark_as_read_trace(es, ci, outcome) ==
    IF Get(es, ci) # None
    THEN LET id == es[ci + 1].id
             r == GmailClient_mark_as_read(outcome)
         IN <<Ev("lock_client", 0), Ev("call", id),
              Ev(IF r.ok THEN "ret_ok" ELSE "ret_err", id), Ev("unlock_client", 0)>>
            \o (IF r.ok THEN <<Ev("remove", id), Ev("clamp", 0)>> ELSE <<>>)
    ELSE <<>>

\* App::unsubscribe: the opener (the cfg!(target_os) choice and Command::status)
\* is entered for a link starting with http and for nothing else
App_unsubscribe_trace(es, ci) ==
    IF NeedsOpener(es, ci) THEN <<Ev("open", es[ci + 1].id)>> ELSE <<>>

\* a controller in which ui.rs moves the cursor without taking the app lock
HoldsAppLock_UnlockedMoves(r, key) ==
    /\ key # "resize"
    /\ r # "ui" \/ key \in {"r", "u", "pgdn"}

\* does the handler of this event run under the app lock?  main.rs and
\* terminal_ui.rs lock before the match on the key; ui.rs locks in handle_up,
\* handle_down, handle_mark_as_read, handle_unsubscribe and handle_page_down
HoldsAppLock(r, key) ==
    /\ key # "resize"
    /\ r # "ui" \/ key \in {"up", "down", "r", "u", "pgdn"}

\* the handler's guard declared outside the loop body: it outlives the handler
HandlerTrace_GuardOutlives(r, key, inner) ==
    IF HoldsAppLock(r, key) THEN <<Ev("lock_app", 0)>> \o inner ELSE inner

\* the handler's guard dropped before the handler's body
HandlerTrace_ReleasesEarly(r, key, inner) ==
    IF HoldsAppLock(r, key)
    THEN <<Ev("lock_app", 0), Ev("unlock_app", 0)>> \o inner
    ELSE inner

\* the handler's events inside its lock; the guard is dropped when the block, the
\* handler, a return or a panic leaves its scope
HandlerTrace(r, key, inner) ==
    IF HoldsAppLock(r, key)
    THEN <<Ev("lock_app", 0)>> \o inner \o <<Ev("unlock_app", 0)>>
    ELSE inner

\* TerminalUI::ui: try_lock, read the store to draw it, drop the guard
RenderTrace == <<Ev("try_lock_app", 0), Ev("render", 0), Ev("unlock_app", 0)>>

\* number of app guards alive after the first n events of a trace
RECURSIVE AppGuards(_, _)
AppGuards(t, n) ==
    IF n = 0 THEN 0
    ELSE AppGuards(t, n - 1)
         + (IF t[n].op \in {"lock_app", "try_lock_app"} THEN 1 ELSE 0)
         - (IF t[n].op = "unlock_app" THEN 1 ELSE 0)

---------------------------------------------------------------------------
(* The state machine: one action per event of run_app's loop *)

\* the event being handled, its input, and the state it is received in
Received(key, outcome) ==
    [key |-> key, outcome |-> outcome, emails |-> emails,
     current_index |-> current_index, scroll_offset |-> scroll_offset]

\* an event after which the loop goes on: its handler, then the render pass at the
\* top of the next iteration
Handled(key, outcome, inner) ==
    [trace |-> HandlerTrace(rev, key, inner) \o RenderTrace] @@ Received(key, outcome)

\* an event that ends run_app: no render pass follows
Ended(key, outcome, inner) ==
    [trace |-> HandlerTrace(rev, key, inner)] @@ Received(key, outcome)

\* App::new (current_index: 0 over the fetched emails) and TerminalUI::new
Init ==
    /\ rev \in Revisions
    /\ emails \in Inboxes
    /\ current_index = 0
    /\ scroll_offset = 0
    /\ status_message = <<>>
    /\ term_height \in TermHeights
    /\ pc = "running"
    /\ last = [key |-> "start", outcome |-> "none", emails |-> emails,
               current_index |-> 0, scroll_offset |-> 0, trace |-> RenderTrace]

\* a quit arm that falls through to the next iteration instead of returning
KeyQuit_KeepsLooping ==
    /\ pc = "running"
    /\ last' = Handled("q", "none", <<>>)
    /\ UNCHANGED <<rev, emails, current_index, scroll_offset, status_message, term_height, pc>>

KeyQuit ==
    /\ pc = "running"
    /\ pc' = "quit"
    /\ last' = Ended("q", "none", <<>>)
    /\ UNCHANGED <<rev, emails, current_index, scroll_offset, status_message, term_height>>

KeyUp ==
    /\ pc = "running"
    /\ LET r == handle_up(emails, current_index, scroll_offset) IN
        /\ current_index' = r.current_index
        /\ scroll_offset' = r.scroll_offset
    /\ last' = Handled("up", "none", IF current_index' # current_index
                                     THEN <<Ev("set_index", current_index')>> ELSE <<>>)
    /\ UNCHANGED <<rev, emails, status_message, term_height, pc>>

KeyDown ==
    /\ pc = "running"
    /\ LET r == handle_down(emails, current_index, scroll_offset) IN
        /\ current_index' = r.current_index
        /\ scroll_offset' = r.scroll_offset
    /\ last' = Handled("down", "none", IF current_index' # current_index
                                       THEN <<Ev("set_index", current_index')>> ELSE <<>>)
    /\ UNCHANGED <<rev, emails, status_message, term_height, pc>>

\* the remote call is issued only when a message is selected
KeyMarkAsRead ==
    /\ pc = "running"
    /\ \E outcome \in IF Get(emails, current_index) # None THEN RemoteOutcomes ELSE {"none"} :
        LET r == App_mark_as_read(emails, current_index, outcome) IN
        /\ emails' = r.emails
        /\ current_index' = r.current_index
        /\ status_message' = MarkReadStatus(r.result)
        /\ last' = Handled("r", outcome, App_mark_as_read_trace(emails, current_index, outcome))
    /\ UNCHANGED <<rev, scroll_offset, term_height, pc>>

\* unsubscribe deleting the message once its link was opened
KeyUnsubscribe_Removes ==
    /\ pc = "running"
    /\ \E open \in IF NeedsOpener(emails, current_index) THEN OpenOutcomes ELSE {"none"} :
        LET r == App_unsubscribe(emails, current_index, open) IN
        /\ status_message' = UnsubscribeStatus(r)
        /\ emails' = IF open = "exit_ok" THEN VecRemove(emails, current_index) ELSE emails
        /\ last' = Handled("u", open, App_unsubscribe_trace(emails, current_index))
    /\ UNCHANGED <<rev, current_index, scroll_offset, term_height, pc>>

\* the opener is spawned only for an http link
KeyUnsubscribe ==
    /\ pc = "running"
    /\ \E open \in IF NeedsOpener(emails, current_index) THEN OpenOutcomes ELSE {"none"} :
        LET r == App_unsubscribe(emails, current_index, open) IN
        /\ status_message' = UnsubscribeStatus(r)
        /\ last' = Handled("u", open, App_unsubscribe_trace(emails, current_index))
    /\ UNCHANGED <<rev, emails, current_index, scroll_offset, term_height, pc>>

KeyPageUp ==
    /\ pc = "running"
    /\ scroll_offset' = handle_page_up(rev, scroll_offset)
    /\ last' = Handled("pgup", "none", <<>>)
    /\ UNCHANGED <<rev, emails, current_index, status_message, term_height, pc>>

\* main.rs: scroll_offset += 10, whatever the store holds
KeyPageDownMain ==
    /\ pc = "running"
    /\ rev = "main"
    /\ scroll_offset + ScrollStep <= MaxScroll
    /\ scroll_offset' = Main_page_down(scroll_offset)
    /\ last' = Handled("pgdn", "none", <<>>)
    /\ UNCHANGED <<rev, emails, current_index, status_message, term_height, pc>>

\* terminal_ui.rs and ui.rs on an empty store: nothing is read, nothing changes
KeyPageDownEmpty ==
    /\ pc = "running"
    /\ rev # "main"
    /\ Get(emails, current_index) = None
    /\ last' = Handled("pgdn", "none", <<Ev("read_store", 0)>>)
    /\ UNCHANGED <<rev, emails, current_index, scroll_offset, status_message, term_height, pc>>

\* terminal_ui.rs and ui.rs with a message selected and terminal.size() answering;
\* height - 6 below zero wraps around when overflow checks are off
KeyPageDownCapped ==
    /\ pc = "running"
    /\ rev # "main"
    /\ Get(emails, current_index) # None
    /\ scroll_offset' = handle_page_down(emails, current_index, scroll_offset, term_height)
    /\ last' = Handled("pgdn", IF VisibleHeightOverflows(term_height)
                               THEN "overflow_wrapped" ELSE "size_ok",
                       <<Ev("read_store", 0)>>)
    /\ UNCHANGED <<rev, emails, current_index, status_message, term_height, pc>>

\* height - 6 below zero panics when overflow checks are on
KeyPageDownOverflowPanic ==
    /\ pc = "running"
    /\ rev # "main"
    /\ Get(emails, current_index) # None
    /\ VisibleHeightOverflows(term_height)
    /\ pc' = "panicked"
    /\ last' = Ended("pgdn", "overflow_panic", <<Ev("read_store", 0)>>)
    /\ UNCHANGED <<rev, emails, current_index, scroll_offset, status_message, term_height>>

\* terminal.size() fails: ui.rs unwraps it (panic), terminal_ui.rs returns the error
KeyPageDownSizeError ==
    /\ pc = "running"
    /\ rev # "main"
    /\ Get(emails, current_index) # None
    /\ pc' = IF rev = "ui" THEN "panicked" ELSE "failed"
    /\ last' = Ended("pgdn", "size_err", <<Ev("read_store", 0)>>)
    /\ UNCHANGED <<rev, emails, current_index, scroll_offset, status_message, term_height>>

\* any other key: the `_ => {}` arm
KeyOther ==
    /\ pc = "running"
    /\ last' = Handled("other", "none", <<>>)
    /\ UNCHANGED <<rev, emails, current_index, scroll_offset, status_message, term_height, pc>>

\* an event that is no key (a resize): the loop only draws again
Resize ==
    /\ pc = "running"
    /\ \E h \in TermHeights \ {term_height} : term_height' = h
    /\ last' = Handled("resize", "none", <<>>)
    /\ UNCHANGED <<rev, emails, current_index, scroll_offset, status_message, pc>>

Next ==
    \/ KeyQuit
    \/ KeyUp
    \/ KeyDown
    \/ KeyMarkAsRead
    \/ KeyUnsubscribe
    \/ KeyPageUp
    \/ KeyPageDownMain
    \/ KeyPageDownEmpty
    \/ KeyPageDownCapped
    \/ KeyPageDownOverflowPanic
    \/ KeyPageDownSizeError
    \/ KeyOther
    \/ Resize

Spec == Init /\ [][Next]_vars

---------------------------------------------------------------------------
(* Properties.  `last` holds the event handled last and the state it was
   received in, so every property of one event is a state predicate. *)

Selected(es, ci) == Get(es, ci)
RemoteCallFailed == last.outcome \in RemoteOutcomes /\ ~GmailClient_mark_as_read(last.outcome).ok
RemoteCallReturnedOk == last.outcome \in RemoteOutcomes /\ GmailClient_mark_as_read(last.outcome).ok
Max(a, b) == IF a >= b THEN a ELSE b

\* C1: the cursor is a valid index of a non-empty store and 0 on an empty one,
\* in every reachable state
C1_CursorInvariant ==
    /\ emails # <<>> => (0 <= current_index /\ current_index < Len(emails))
    /\ emails = <<>> => current_index = 0

\* a mark-read removed the only message while it was selected
C1_Witness ==
    /\ last.key = "r"
    /\ Len(last.emails) = 1
    /\ emails = <<>>
    /\ current_index = 0

\* C2: a mark-read whose remote call returns an error leaves emails and
\* current_index as they were and sets the failure status carrying the error
C2_MarkReadFailureNoOp ==
    (last.key = "r" /\ RemoteCallFailed) =>
        /\ emails = last.emails
        /\ current_index = last.current_index
        /\ status_message = ErrorMarking \o GmailClient_mark_as_read(last.outcome).val
        /\ Len(status_message) > Len(ErrorMarking)

\* the send failed with two messages in the store
C2_Witness ==
    /\ last.key = "r"
    /\ last.outcome = "send_error"
    /\ Len(last.emails) = 2
    /\ status_message = ErrorMarking \o SendError

\* C3: whenever the remote service did not accept the modify request (no token,
\* failed send, or an error response), the store is unchanged and the status is a
\* failure; a message is removed only on an accepted request
C3_EveryRemoteFailureIsFailure ==
    (last.key = "r" /\ last.outcome \in RemoteOutcomes \ {"status_2xx"}) =>
        /\ emails = last.emails
        /\ current_index = last.current_index
        /\ StartsWith(status_message, ErrorMarking)

\* C4: a mark-read whose remote call returned Ok, with N messages and cursor i,
\* leaves N-1 messages without the selected one and the success status, the cursor
\* at i (on the message that followed) if i < N-1, at N-2 if i was last and N > 1, at 0 if N = 1
C4_MarkReadSuccess ==
    (last.key = "r" /\ RemoteCallReturnedOk) =>
        LET N == Len(last.emails)
            i == last.current_index
        IN  /\ Len(emails) = N - 1
            /\ \A k \in 1..Len(emails) : emails[k].id # last.emails[i + 1].id
            /\ status_message = MarkedAsRead
            /\ i < N - 1 => (current_index = i /\ emails[current_index + 1] = last.emails[i + 2])
            /\ (i = N - 1 /\ N > 1) => current_index = N - 2
            /\ N = 1 => current_index = 0

\* the last of three messages was marked read
C4_Witness ==
    /\ last.key = "r"
    /\ last.outcome = "status_2xx"
    /\ Len(last.emails) = 3
    /\ last.current_index = 2
    /\ current_index = 1
    /\ Len(emails) = 2

\* C5: move-up and move-down move the cursor by one where a neighbour exists, stay
\* at index 0 / len-1 otherwise, never wrap, and do nothing on an empty store
C5_NavigationSaturates ==
    /\ last.key = "up" =>
        /\ emails = last.emails
        /\ last.current_index > 0 => current_index = last.current_index - 1
        /\ last.current_index = 0 => current_index = 0
    /\ last.key = "down" =>
        /\ emails = last.emails
        /\ last.current_index + 1 < Len(last.emails) => current_index = last.current_index + 1
        /\ last.current_index + 1 >= Len(last.emails) => current_index = last.current_index

\* move-down on the last of two messages leaves the cursor on it
C5_Witness ==
    /\ last.key = "down"
    /\ Len(last.emails) = 2
    /\ last.current_index = 1
    /\ current_index = 1

\* C6: after a move-up, a move-down or a mark-read that makes a different message
\* the selected one, scroll_offset = 0
C6_ScrollResetOnSelectionChange ==
    ( /\ last.key \in {"up", "down", "r"}
      /\ Selected(emails, current_index) # None
      /\ Selected(emails, current_index) # Selected(last.emails, last.current_index) )
    => scroll_offset = 0

\* C7 as stated: after every move-up and every move-down scroll_offset = 0
C7_EveryMoveResetsScroll ==
    last.key \in {"up", "down"} => scroll_offset = 0

\* C7 as amended: a move-up or move-down resets scroll_offset to 0 when the cursor
\* moves, and leaves it as it was when the cursor stays (first message, last
\* message, empty store)
C7_MoveResetsScrollWhenCursorMoves ==
    last.key \in {"up", "down"} =>
        IF current_index # last.current_index
        THEN scroll_offset = 0
        ELSE scroll_offset = last.scroll_offset

\* two messages, cursor 0, scroll offset 5, move-down: cursor 1, scroll offset 0
C7_Witness ==
    /\ last.key = "down"
    /\ Len(last.emails) = 2
    /\ last.current_index = 0
    /\ last.scroll_offset = 5
    /\ current_index = 1
    /\ scroll_offset = 0

\* C8: in every revision a scroll-down that the loop survives sets scroll_offset
\* to min(old + 10, max(0, lineCount(body) - visibleHeight)) and leaves it alone on
\* an empty store (stated where the terminal has at least the six chrome rows)
C8_ScrollDownCapped ==
    (last.key = "pgdn" /\ pc = "running" /\ term_height >= ChromeRows) =>
        IF Selected(last.emails, last.current_index) = None
        THEN scroll_offset = last.scroll_offset
        ELSE scroll_offset =
                Min(last.scroll_offset + ScrollStep,
                    Max(0, LinesCount(last.emails[last.current_index + 1].body)
                            - (term_height - ChromeRows)))

\* C9: scroll-up sets scroll_offset to max(0, old - 10) and leaves the store alone
C9_ScrollUpFloored ==
    last.key = "pgup" =>
        /\ scroll_offset = Max(0, last.scroll_offset - ScrollStep)
        /\ scroll_offset >= 0
        /\ emails = last.emails
        /\ current_index = last.current_index

\* scroll-up from an offset below the step lands on 0
C9_Witness ==
    /\ last.key = "pgup"
    /\ last.scroll_offset > 0
    /\ last.scroll_offset < ScrollStep
    /\ scroll_offset = 0

\* C10: an unsubscribe event leaves emails, current_index and scroll_offset as
\* they were, whatever the target and whatever the opener does
C10_UnsubscribeLeavesStore ==
    last.key = "u" =>
        /\ emails = last.emails
        /\ current_index = last.current_index
        /\ scroll_offset = last.scroll_offset

\* an http link was opened successfully and the status says so
C10_Witness ==
    /\ last.key = "u"
    /\ last.outcome = "exit_ok"
    /\ status_message = LinkOpened
    /\ Len(emails) >= 2

\* number of events of a trace with the given op
Count(t, op) == Cardinality({k \in 1..Len(t) : t[k].op = op})

\* C11: unsubscribe dispatches on the stored link: starting with http, the opener is
\* entered exactly once and the status reports its success or its failure; starting
\* with mailto:, the status names the address without the prefix and nothing is
\* opened; any other link, or none, gives an explanatory status and opens nothing
C11_UnsubscribeDispatch ==
    (last.key = "u" /\ Selected(last.emails, last.current_index) # None) =>
        LET target == last.emails[last.current_index + 1].unsubscribe_link
            opens == Count(last.trace, "open")
        IN  IF target = None
            THEN opens = 0 /\ status_message = NoLinkFound
            ELSE IF StartsWith(target[1], Http)
            THEN /\ opens = 1
                 /\ last.outcome = "exit_ok" => status_message = LinkOpened
                 /\ last.outcome # "exit_ok" => StartsWith(status_message, ErrorUnsubscribing)
            ELSE IF StartsWith(target[1], Mailto)
            THEN /\ opens = 0
                 /\ StartsWith(status_message, MailtoNotice)
                 /\ Mailto \o SubSeq(status_message, Len(MailtoNotice) + 1, Len(status_message))
                        = target[1]
            ELSE /\ opens = 0
                 /\ status_message = UnsupportedMethod \o target[1]

\* unsubscribe on the message whose link is mailto:x@y
C11_Witness ==
    /\ last.key = "u"
    /\ status_message = MailtoNotice \o <<"x", "@", "y">>
    /\ Count(last.trace, "open") = 0

\* C12: the loop is left by a quit event only: after any other event it is still
\* running
C12_OnlyQuitEndsLoop ==
    last.key # "q" => pc = "running"

\* C13: a quit event ends the loop with the app lock released, it can be received
\* in every state of the running loop, and once the loop has ended nothing changes
\* any more
C13_QuitIsTerminal ==
    /\ [](last.key = "q" => (pc = "quit" /\ AppGuards(last.trace, Len(last.trace)) = 0))
    /\ [](pc = "running" => ENABLED KeyQuit)
    /\ [][pc = "quit" => UNCHANGED vars]_vars

\* quit received by main.rs, which took the app lock before the match
C13_Witness ==
    /\ pc = "quit"
    /\ last.key = "q"
    /\ rev = "main"
    /\ Count(last.trace, "lock_app") = 1
    /\ Len(emails) = 2

\* C14: every read of the store by the render pass and every mutation by a handler
\* happens under the app lock, the lock is never taken twice, and a removal is
\* followed by the re-clamp before the lock is released
C14_StoreUnderAppLock ==
    LET t == last.trace IN
    /\ \A k \in 1..Len(t) :
        t[k].op \in {"set_index", "remove", "clamp", "read_store", "render"}
            => AppGuards(t, k - 1) = 1
    /\ \A k \in 0..Len(t) : AppGuards(t, k) \in {0, 1}
    /\ \A k \in 1..Len(t) :
        t[k].op = "remove" => (k < Len(t) /\ t[k + 1].op = "clamp")
    /\ (emails # last.emails) = (Count(t, "remove") > 0)
    /\ (current_index # last.current_index) => (Count(t, "set_index") + Count(t, "clamp") > 0)

\* ui.rs moved the cursor and the render pass drew the store after it
C14_Witness ==
    /\ rev = "ui"
    /\ last.key = "down"
    /\ current_index = last.current_index + 1
    /\ Count(last.trace, "set_index") = 1
    /\ Count(last.trace, "render") = 1

\* C15: a message with id X is removed only after a remote mark-read call for X,
\* issued by the same event, has completed and returned Ok; the store changes only
\* through such a removal
C15_CallThenMutate ==
    LET t == last.trace IN
    /\ \A k \in 1..Len(t) :
        t[k].op = "remove" =>
            \E i, j \in 1..Len(t) :
                /\ i < j /\ j < k
                /\ t[i] = Ev("call", t[k].arg)
                /\ t[j] = Ev("ret_ok", t[k].arg)
    /\ (emails # last.emails) =>
            /\ last.key = "r"
            /\ Count(t, "remove") = 1
            /\ \E k \in 1..Len(t) :
                t[k] = Ev("remove", last.emails[last.current_index + 1].id)
    /\ (last.key = "r" /\ RemoteCallFailed) => Count(t, "remove") = 0

\* the second of three messages was removed after its call returned Ok
C15_Witness ==
    /\ last.key = "r"
    /\ Len(last.emails) = 3
    /\ last.current_index = 1
    /\ Len(emails) = 2
    /\ Count(last.trace, "ret_ok") = 1
    /\ Count(last.trace, "remove") = 1

---------------------------------------------------------------------------
(* Startup: main builds the App before the loop is entered *)

\* what can happen in App::new: the secret cannot be read, the authenticator
\* cannot be built, no token is granted, fetch_emails fails, or all succeed
StartOutcomes == {"secret_err", "auth_err", "token_err", "fetch_err", "ok"}

\* App::new propagating the fetch error with `?` like the session errors
App_new_FetchFatal(outcome, inbox) ==
    IF outcome = "ok"
    THEN Ok([emails |-> inbox, current_index |-> 0])
    ELSE Err(<<outcome>>)

\* App::new: the three session steps end in `?`; an error of fetch_emails is
\* printed and replaced by an empty Vec
App_new(outcome, inbox) ==
    CASE outcome \in {"secret_err", "auth_err", "token_err"} -> Err(<<outcome>>)
      [] outcome = "fetch_err" -> Ok([emails |-> <<>>, current_index |-> 0])
      [] OTHER -> Ok([emails |-> inbox, current_index |-> 0])

\* the process before main has built anything
InitStart ==
    /\ rev \in Revisions
    /\ emails = <<>>
    /\ current_index = 0
    /\ scroll_offset = 0
    /\ status_message = <<>>
    /\ term_height \in TermHeights
    /\ pc = "startup"
    /\ last = [key |-> "boot", outcome |-> "none", emails |-> <<>>,
               current_index |-> 0, scroll_offset |-> 0, trace |-> <<>>]

\* what the remote service answers to the listing request: an error, a body
\* without a "messages" array, or the ids of the unread messages
Listings ==
    {Err(NoToken), Err(SendError), Err(<<"No messages found">>)}
    \cup {Ok([k \in 1..Len(inbox) |-> inbox[k].id]) : inbox \in Inboxes}

\* what happens to the k-th message of a listing: its entry has no id, its
\* request fails, or it is fetched and parsed
ReplyKinds == {"no_id", "fetch_err", "ok"}

\* fetch_emails pushing what it has when a message fails
RECURSIVE fetch_loop_KeepsPartial(_, _, _)
fetch_loop_KeepsPartial(ids, replies, emails_acc) ==
    IF ids = <<>> THEN Ok(emails_acc)
    ELSE IF Head(replies) # "ok" THEN Ok(emails_acc)
    ELSE fetch_loop_KeepsPartial(Tail(ids), Tail(replies),
                                 Append(emails_acc, Catalogue[Head(ids)]))

\* fetch_emails: for message in messages, each step ending in `?`
RECURSIVE fetch_loop(_, _, _)
fetch_loop(ids, replies, emails_acc) ==
    IF ids = <<>> THEN Ok(emails_acc)
    ELSE IF Head(replies) = "no_id" THEN Err(<<"No id found">>)
    ELSE IF Head(replies) = "fetch_err" THEN Err(SendError)
    ELSE fetch_loop(Tail(ids), Tail(replies), Append(emails_acc, Catalogue[Head(ids)]))

\* GmailClient::fetch_emails
fetch_emails(listing, replies) ==
    IF ~listing.ok THEN listing
    ELSE fetch_loop(listing.val, replies, <<>>)

\* App::new: the client guard taken for fetch_emails is a temporary of the match
\* statement; no app mutex exists yet
App_new_trace(outcome) ==
    IF outcome \in {"ok", "fetch_err"}
    THEN <<Ev("lock_client", 0), Ev("call", "list"),
           Ev(IF outcome = "ok" THEN "ret_ok" ELSE "ret_err", "list"),
           Ev("unlock_client", 0)>>
    ELSE <<>>

\* main: App::new().await? and, if it returned Ok, TerminalUI::new and the first
\* render pass of run_app
Start ==
    /\ pc = "startup"
    /\ \E session \in StartOutcomes \ {"fetch_err"} :
       \E listing \in IF session = "ok" THEN Listings ELSE {Err(<<>>)} :
       \E replies \in IF listing.ok THEN [1..Len(listing.val) -> ReplyKinds] ELSE {<<>>} :
        LET fetched == fetch_emails(listing, replies)
            outcome == IF session # "ok" THEN session
                       ELSE IF fetched.ok THEN "ok" ELSE "fetch_err"
            r == App_new(outcome, IF fetched.ok THEN fetched.val ELSE <<>>)
        IN
        /\ pc' = IF r.ok THEN "running" ELSE "aborted"
        /\ emails' = IF r.ok THEN r.val.emails ELSE emails
        /\ current_index' = IF r.ok THEN r.val.current_index ELSE current_index
        /\ last' = [key |-> "start", outcome |-> outcome, emails |-> emails',
                    current_index |-> current_index', scroll_offset |-> 0,
                    trace |-> App_new_trace(outcome)
                              \o (IF r.ok THEN RenderTrace ELSE <<>>),
                    listing |-> listing, replies |-> replies]
    /\ UNCHANGED <<rev, scroll_offset, status_message, term_height>>

NextStart ==
    \/ Start
    \/ Next

SpecStart == InitStart /\ [][NextStart]_vars

\* C16 as stated: whenever the session or the initial fetch fails, the program
\* aborts and the loop is not entered
C16_StartupFailureFatal ==
    (last.key = "start" /\ last.outcome # "ok") => pc = "aborted"

\* C16 as amended: a failure to establish the session aborts the program before
\* the loop; a failure of the initial fetch does not: the loop is entered with an
\* empty store; the loop is never entered without a session
C16_SessionFailureFatal ==
    last.key = "start" =>
        /\ last.outcome \in {"secret_err", "auth_err", "token_err"} => pc = "aborted"
        /\ last.outcome = "fetch_err" =>
            (pc = "running" /\ emails = <<>> /\ current_index = 0)
        /\ last.outcome = "ok" => pc = "running"
        /\ pc = "running" => last.outcome \in {"ok", "fetch_err"}

\* the initial fetch failed and the loop runs on an empty store
C16_Witness ==
    /\ last.key = "start"
    /\ last.outcome = "fetch_err"
    /\ pc = "running"
    /\ emails = <<>>

\* C26: the store built at startup holds one Email for every id of the listing,
\* in listing order, when the listing and every message of it were fetched, and
\* no message at all when the listing or any message of it failed
C26_FetchAllOrNothing ==
    (last.key = "start" /\ pc = "running") =>
        IF last.listing.ok /\ \A k \in 1..Len(last.replies) : last.replies[k] = "ok"
        THEN /\ Len(emails) = Len(last.listing.val)
             /\ \A k \in 1..Len(emails) : emails[k].id = last.listing.val[k]
        ELSE emails = <<>>

\* the second of three listed messages could not be fetched and the store is empty
C26_Witness ==
    /\ last.key = "start"
    /\ pc = "running"
    /\ last.listing.ok
    /\ Len(last.listing.val) = 3
    /\ last.replies = <<"ok", "fetch_err", "ok">>
    /\ emails = <<>>

---------------------------------------------------------------------------
(* Message ingestion: GmailClient::parse_message and what it calls *)

\* most comma-separated candidates in a List-Unsubscribe value of the model
MaxCandidates == 3
\* most children of a flat parts list of the model
MaxParts == 3
\* most children of a nested multipart container of the model
MaxNested == 2

Chars(w) ==
    CASE w = "http:a" -> <<"h", "t", "t", "p", ":", "a">>
      [] w = "https:u" -> <<"h", "t", "t", "p", "s", ":", "u">>
      [] w = "mailto:x@y" -> <<"m", "a", "i", "l", "t", "o", ":", "x", "@", "y">>
      [] w = "other" -> <<"x">>
      [] OTHER -> <<>>

\* the candidates a List-Unsubscribe value is built from: the text as it stands in
\* the header, and what stands between its angle brackets if it has them
Candidates ==
    << [text |-> <<"<">> \o Chars("http:a") \o <<">">>, inner |-> Some(Chars("http:a"))],
       [text |-> <<" ", "<">> \o Chars("https:u") \o <<">">>, inner |-> Some(Chars("https:u"))],
       [text |-> <<"<">> \o Chars("mailto:x@y") \o <<">">>, inner |-> Some(Chars("mailto:x@y"))],
       [text |-> <<" ", "<">> \o Chars("other") \o <<">", " ">>, inner |-> Some(Chars("other"))],
       [text |-> Chars("https:u"), inner |-> None],
       [text |-> <<"<">> \o Chars("mailto:x@y"), inner |-> None] >>

RECURSIVE Join(_)
Join(cs) ==
    IF cs = <<>> THEN <<>>
    ELSE IF Len(cs) = 1 THEN cs[1].text
    ELSE cs[1].text \o <<",">> \o Join(Tail(cs))

\* str::split(','): the pieces between the commas, at least one
RECURSIVE Split(_)
Split(s) ==
    IF \E k \in 1..Len(s) : s[k] = ","
    THEN LET k == CHOOSE k \in 1..Len(s) : s[k] = "," /\ \A j \in 1..(k - 1) : s[j] # ","
         IN <<SubSeq(s, 1, k - 1)>> \o Split(SubSeq(s, k + 1, Len(s)))
    ELSE <<s>>

\* str::trim
RECURSIVE Trim(_)
Trim(s) ==
    IF s # <<>> /\ s[1] = " " THEN Trim(Tail(s))
    ELSE IF s # <<>> /\ s[Len(s)] = " " THEN Trim(SubSeq(s, 1, Len(s) - 1))
    ELSE s

\* the filter_map closure: what is between the brackets of a piece delimited by them
RECURSIVE BracketedUrls(_)
BracketedUrls(pieces) ==
    IF pieces = <<>> THEN <<>>
    ELSE LET trimmed == Trim(Head(pieces)) IN
         (IF trimmed # <<>> /\ trimmed[1] = "<" /\ trimmed[Len(trimmed)] = ">"
          THEN <<SubSeq(trimmed, 2, Len(trimmed) - 1)>>
          ELSE <<>>)
         \o BracketedUrls(Tail(pieces))

\* Iterator::next / slice::first: Option of the first element
First(v) == IF v = <<>> THEN None ELSE Some(v[1])

\* extract_unsubscribe_link taking the first bracketed candidate whatever it is
extract_unsubscribe_link_FirstBracketed(headers) ==
    LET h == First(SelectSeq(headers, LAMBDA x : x.name = "List-Unsubscribe")) IN
    IF h = None THEN None
    ELSE LET urls == BracketedUrls(Split(h[1].value)) IN
         First(urls)

\* GmailClient::extract_unsubscribe_link
extract_unsubscribe_link(headers) ==
    LET h == First(SelectSeq(headers, LAMBDA x : x.name = "List-Unsubscribe")) IN
    IF h = None THEN None
    ELSE LET urls == BracketedUrls(Split(h[1].value))
             http == First(SelectSeq(urls, LAMBDA u : StartsWith(u, Http)))
         IN IF http # None THEN http ELSE First(urls)

\* parse_message: the value of the first Subject header, or the empty string
extract_subject(headers) ==
    LET h == First(SelectSeq(headers, LAMBDA x : x.name = "Subject")) IN
    IF h = None THEN <<>> ELSE h[1].value

(* Bodies.  Text is a sequence of tokens: a word, a markup tag, or an escaped
   tag (an entity-encoded tag such as &lt;b&gt;). *)

Sentinel == <<"No readable content found in the email.">>
Tags == {"<b>", "<p>", "</p>"}
EscapedTag == "&lt;b&gt;"

\* html2text::from_read: tags are dropped, entities are decoded
RECURSIVE from_read(_)
from_read(s) ==
    IF s = <<>> THEN <<>>
    ELSE (IF Head(s) \in Tags THEN <<>>
          ELSE IF Head(s) = EscapedTag THEN <<"<b>">>
          ELSE <<Head(s)>>)
         \o from_read(Tail(s))

\* pulldown_cmark Parser + html::push_html: text becomes a paragraph, inline
\* markup passes through
push_html(s) == IF s = <<>> THEN <<>> ELSE <<"<p>">> \o s \o <<"</p>">>

\* base64 decoding after the -/_ translation, then String::from_utf8
decode(data) ==
    IF data.enc = "base64url" THEN Ok(data.text) ELSE Err(<<data.enc>>)

\* GmailClient::decode_and_render_body
decode_and_render_body(data) ==
    LET d == decode(data) IN
    IF ~d.ok THEN d
    ELSE IF \E k \in 1..Len(d.val) : d.val[k] = EscapedTag
    THEN Ok(from_read(d.val))
    ELSE Ok(from_read(push_html(d.val)))

\* get_content_from_body turning a decode failure into the empty string
get_content_from_body_DefaultOnError(body) ==
    IF body.data = None THEN None
    ELSE LET r == decode_and_render_body(body.data[1]) IN
         IF r.ok THEN Some(r.val) ELSE Some(<<>>)

\* GmailClient::get_content_from_body
get_content_from_body(body) ==
    IF body.data = None THEN None
    ELSE LET r == decode_and_render_body(body.data[1]) IN
         IF r.ok THEN Some(r.val) ELSE None

RECURSIVE get_content_from_parts(_)
RECURSIVE ScanParts(_, _)

\* the loop of get_content_from_parts over parts: the two accumulators, and the
\* content of a nested container that ended the loop early
ScanParts(parts, acc) ==
    IF parts = <<>> THEN acc
    ELSE LET part == Head(parts)
             content == get_content_from_body(part.body)
         IN CASE part.mimeType = "text/plain" ->
                    ScanParts(Tail(parts),
                              IF content # None
                              THEN [acc EXCEPT !.text_plain = @ \o content[1]] ELSE acc)
              [] part.mimeType = "text/html" ->
                    ScanParts(Tail(parts),
                              IF content # None
                              THEN [acc EXCEPT !.text_html = @ \o content[1]] ELSE acc)
              [] OTHER ->
                    IF part.parts # None
                    THEN LET sub == get_content_from_parts(part.parts[1]).val IN
                         IF sub # <<>>
                         THEN [acc EXCEPT !.early = Some(sub)]
                         ELSE ScanParts(Tail(parts), acc)
                    ELSE ScanParts(Tail(parts), acc)

\* get_content_from_parts preferring the plain text
get_content_from_parts_PlainFirst(parts) ==
    LET acc == ScanParts(parts, [text_plain |-> <<>>, text_html |-> <<>>, early |-> None]) IN
    IF acc.early # None THEN Ok(acc.early[1])
    ELSE IF acc.text_plain # <<>> THEN Ok(acc.text_plain)
    ELSE IF acc.text_html # <<>> THEN Ok(from_read(acc.text_html))
    ELSE Ok(Sentinel)

\* GmailClient::get_content_from_parts
get_content_from_parts(parts) ==
    LET acc == ScanParts(parts, [text_plain |-> <<>>, text_html |-> <<>>, early |-> None]) IN
    IF acc.early # None THEN Ok(acc.early[1])
    ELSE IF acc.text_html # <<>> THEN Ok(from_read(acc.text_html))
    ELSE IF acc.text_plain # <<>> THEN Ok(acc.text_plain)
    ELSE Ok(Sentinel)

\* extract_body looking at the parts before the inline body
extract_body_PartsFirst(payload) ==
    IF payload.parts # None
    THEN get_content_from_parts(payload.parts[1])
    ELSE LET content == get_content_from_body(payload.body) IN
         IF content # None THEN Ok(content[1]) ELSE Ok(Sentinel)

\* GmailClient::extract_body
extract_body(payload) ==
    LET content == get_content_from_body(payload.body) IN
    IF content # None THEN Ok(content[1])
    ELSE IF payload.parts # None THEN get_content_from_parts(payload.parts[1])
    ELSE Ok(Sentinel)

\* GmailClient::parse_message
parse_message(msg) ==
    LET body == extract_body(msg.payload) IN
    IF ~body.ok THEN body
    ELSE Ok([id |-> msg.id,
             subject |-> extract_subject(msg.payload.headers),
             body |-> body.val,
             unsubscribe_link |-> extract_unsubscribe_link(msg.payload.headers)])

(* The messages the remote service answers with *)

Data(enc, text) == Some([enc |-> enc, text |-> text])
Leaf(mime, data) == [mimeType |-> mime, body |-> [data |-> data], parts |-> None]
Container(children) ==
    [mimeType |-> "multipart/alternative", body |-> [data |-> None], parts |-> children]

SeqsUpTo(S, n) == UNION {[1..k -> S] : k \in 0..n}

PlainLeaves ==
    {Leaf("text/plain", d) :
        d \in {None, Data("invalid_base64", <<>>), Data("base64url", <<>>),
               Data("base64url", <<"P">>)}}
HtmlLeaves ==
    {Leaf("text/html", d) :
        d \in {None, Data("invalid_utf8", <<>>), Data("base64url", <<>>),
               Data("base64url", <<"<b>", "H">>), Data("base64url", <<EscapedTag>>)}}
OtherLeaves == {Leaf("image/png", Data("base64url", <<"I">>))}
Leaves == PlainLeaves \cup HtmlLeaves \cup OtherLeaves

NestedLeaves ==
    {Leaf("text/plain", None), Leaf("text/plain", Data("base64url", <<"Q">>)),
     Leaf("text/html", Data("invalid_base64", <<>>)),
     Leaf("text/html", Data("base64url", <<"G">>))}
Containers ==
    {Container(None)} \cup {Container(Some(c)) : c \in SeqsUpTo(NestedLeaves, MaxNested)}

SiblingLeaves ==
    {Leaf("text/plain", Data("base64url", <<"P">>)),
     Leaf("text/html", Data("base64url", <<"<b>", "H">>)),
     Leaf("text/html", None)}

\* parts lists without a container, and parts lists around one container
FlatParts == SeqsUpTo(Leaves, MaxParts)
NestedParts ==
    {before \o <<c>> \o after :
        before \in SeqsUpTo(SiblingLeaves, 1), c \in Containers,
        after \in SeqsUpTo(SiblingLeaves, 1)}

RootData ==
    {None, Data("invalid_base64", <<>>), Data("base64url", <<>>),
     Data("base64url", <<"R">>)}

SubjectHeader == [name |-> "Subject", value |-> <<"s">>]
UnsubscribeHeader(cs) == [name |-> "List-Unsubscribe", value |-> Join(cs)]

CandidateLists ==
    {[k \in 1..Len(ix) |-> Candidates[ix[k]]] :
        ix \in SeqsUpTo(1..Len(Candidates), MaxCandidates) \ {<<>>}}

Message(headers, data, parts) ==
    [id |-> "m1",
     payload |-> [headers |-> headers, body |-> [data |-> data], parts |-> parts]]

\* fetch_emails over a listing of one message: the message is fetched in full,
\* parsed and pushed
Fetched(family, candidates, msg) ==
    LET r == parse_message(msg) IN
    /\ pc' = "fetched"
    /\ emails' = IF r.ok THEN <<r.val>> ELSE <<>>
    /\ last' = [key |-> "fetch", outcome |-> family, emails |-> emails,
                current_index |-> current_index, scroll_offset |-> scroll_offset,
                trace |-> <<>>, candidates |-> candidates, raw |-> msg]
    /\ UNCHANGED <<rev, current_index, scroll_offset, status_message, term_height>>

\* a message whose headers vary: no List-Unsubscribe header, or one built from
\* candidates, possibly after a second header
FetchHeaders ==
    /\ pc = "startup"
    /\ \/ \E hs \in {<<>>, <<SubjectHeader>>} :
            Fetched("headers", None, Message(hs, Data("base64url", <<"R">>), None))
       \/ \E cs \in CandidateLists :
          \E hs \in {<<UnsubscribeHeader(cs)>>, <<SubjectHeader, UnsubscribeHeader(cs)>>,
                     <<UnsubscribeHeader(cs), UnsubscribeHeader(<<Candidates[1]>>)>>} :
            Fetched("headers", Some(cs), Message(hs, Data("base64url", <<"R">>), None))

\* a message whose payload has no parts, or a parts list without containers
FetchFlat ==
    /\ pc = "startup"
    /\ \E data \in RootData :
       \E parts \in {None} \cup {Some(ps) : ps \in FlatParts} :
            Fetched("flat", None, Message(<<SubjectHeader>>, data, parts))

\* a message whose parts list holds a multipart container
FetchNested ==
    /\ pc = "startup"
    /\ \E data \in RootData :
       \E ps \in NestedParts :
            Fetched("nested", None, Message(<<SubjectHeader>>, data, Some(ps)))

InitFetch ==
    /\ InitStart
    /\ rev = "main"
    /\ term_height = 8

NextFetch ==
    \/ FetchHeaders
    \/ FetchFlat
    \/ FetchNested

SpecFetch == InitFetch /\ [][NextFetch]_vars

(* Properties of message ingestion, over SpecFetch *)

FetchedLink == emails[1].unsubscribe_link
FetchedBody == emails[1].body
Bracketed(cs) == SelectSeq(cs, LAMBDA c : c.inner # None)
BracketedHttp(cs) == SelectSeq(Bracketed(cs), LAMBDA c : StartsWith(c.inner[1], Http))

\* the rendered contents of the children of one media type, in list order
RECURSIVE ContentOf(_, _)
ContentOf(parts, mime) ==
    IF parts = <<>> THEN <<>>
    ELSE LET c == get_content_from_body(Head(parts).body) IN
         (IF Head(parts).mimeType = mime /\ c # None THEN c[1] ELSE <<>>)
         \o ContentOf(Tail(parts), mime)

\* C17: from a List-Unsubscribe value with a bracket-delimited candidate, the link
\* extracted is the first bracket-delimited candidate beginning with http, wherever
\* it stands, and the first bracket-delimited candidate if none begins with http
C17_HeaderPreference ==
    (last.key = "fetch" /\ last.candidates # None /\ Bracketed(last.candidates[1]) # <<>>) =>
        LET cs == last.candidates[1] IN
        /\ Len(emails) = 1
        /\ BracketedHttp(cs) # <<>> => FetchedLink = BracketedHttp(cs)[1].inner
        /\ BracketedHttp(cs) = <<>> => FetchedLink = Bracketed(cs)[1].inner

\* the value "<mailto:x@y>, <https:u>" was fetched and the https link extracted
C17_Witness ==
    /\ last.key = "fetch"
    /\ last.candidates = Some(<<Candidates[3], Candidates[2]>>)
    /\ FetchedLink = Some(Chars("https:u"))

\* C18: when the List-Unsubscribe header is present and none of its candidates is
\* bracket-delimited, the link extracted is the whole raw header value; the link is
\* None only when the header is absent
C18_BareStringFallback ==
    (last.key = "fetch" /\ last.outcome = "headers") =>
        /\ (last.candidates # None /\ Bracketed(last.candidates[1]) = <<>>) =>
                FetchedLink = Some(Join(last.candidates[1]))
        /\ FetchedLink = None => last.candidates = None

\* C19: in a parts list without a container, when the text/html children yield
\* content the body is the rendering of their content alone, and when they yield
\* none and the text/plain children yield content the body is that plain content;
\* this for every order of the children
C19_HtmlWinsOverPlain ==
    (/\ last.key = "fetch"
     /\ last.outcome = "flat"
     /\ get_content_from_body(last.raw.payload.body) = None
     /\ last.raw.payload.parts # None) =>
        LET parts == last.raw.payload.parts[1]
            html == ContentOf(parts, "text/html")
            plain == ContentOf(parts, "text/plain")
        IN /\ Len(emails) = 1
           /\ html # <<>> => FetchedBody = from_read(html)
           /\ (html = <<>> /\ plain # <<>>) => FetchedBody = plain

\* a plain child with content stands before an html child with content, and the
\* body is the html child's
C19_Witness ==
    /\ last.key = "fetch"
    /\ last.raw.payload.body.data = None
    /\ last.raw.payload.parts =
            Some(<<Leaf("text/plain", Data("base64url", <<"P">>)),
                   Leaf("text/html", Data("base64url", <<"<b>", "H">>))>>)
    /\ FetchedBody = <<"H">>

\* C20: when the inline body of the root payload decodes, the body of the message
\* is its rendering whatever the parts are; the parts decide the body only when the
\* root has no inline data or the data does not decode
C20_InlineBodyTerminal ==
    last.key = "fetch" =>
        LET root == last.raw.payload
            inline == IF root.body.data = None THEN Err(<<>>)
                      ELSE decode_and_render_body(root.body.data[1])
        IN /\ Len(emails) = 1
           /\ inline.ok => FetchedBody = inline.val
           /\ (~inline.ok /\ root.parts # None) =>
                FetchedBody = get_content_from_parts(root.parts[1]).val

\* the root carries the inline body "R" and an html part with content, and the
\* body is the root's
C20_Witness ==
    /\ last.key = "fetch"
    /\ last.raw.payload.body.data = Data("base64url", <<"R">>)
    /\ last.raw.payload.parts # None
    /\ \E k \in 1..Len(last.raw.payload.parts[1]) :
            ContentOf(<<last.raw.payload.parts[1][k]>>, "text/html") # <<>>
    /\ FetchedBody = <<"R">>

\* the data of a body, taken away when it does not decode
ScrubData(data) ==
    IF data # None /\ ~decode(data[1]).ok THEN None ELSE data

\* a parts list with the data that does not decode taken away, at every depth
RECURSIVE ScrubParts(_)
ScrubParts(parts) ==
    [k \in 1..Len(parts) |->
        [mimeType |-> parts[k].mimeType,
         body |-> [data |-> ScrubData(parts[k].body.data)],
         parts |-> IF parts[k].parts = None THEN None
                   ELSE Some(ScrubParts(parts[k].parts[1]))]]

ScrubPayload(payload) ==
    [headers |-> payload.headers,
     body |-> [data |-> ScrubData(payload.body.data)],
     parts |-> IF payload.parts = None THEN None ELSE Some(ScrubParts(payload.parts[1]))]

Undecodable(part) == part.body.data # None /\ ~decode(part.body.data[1]).ok

\* C21: the body of every message fetched is non-empty
C21_BodyNeverEmpty ==
    last.key = "fetch" => (Len(emails) = 1 /\ FetchedBody # <<>>)

\* C22: every message fetched is parsed to an Email, whatever data fails to decode,
\* and its body is the body of the same message without the data that fails to
\* decode
C22_DecodeFailuresRecovered ==
    last.key = "fetch" =>
        /\ Len(emails) = 1
        /\ parse_message(last.raw).ok
        /\ FetchedBody = extract_body(ScrubPayload(last.raw.payload)).val

\* neither the root nor the html part decodes, and the body is the plain part's
C22_Witness ==
    /\ last.key = "fetch"
    /\ last.raw.payload.body.data = Data("invalid_base64", <<>>)
    /\ last.raw.payload.parts # None
    /\ Len(last.raw.payload.parts[1]) = 2
    /\ last.raw.payload.parts[1][1].mimeType = "text/html"
    /\ Undecodable(last.raw.payload.parts[1][1])
    /\ FetchedBody = <<"P">>

\* C23: when the container of a parts list holds no text node that yields
\* content, the body is what the other children of the list give: the rendering of
\* their html content, else their plain content, else the sentinel
C23_EmptyContainerKeepsSiblings ==
    (/\ last.key = "fetch"
     /\ last.outcome = "nested"
     /\ get_content_from_body(last.raw.payload.body) = None) =>
        LET parts == last.raw.payload.parts[1]
            siblings == SelectSeq(parts, LAMBDA p : p.mimeType \in {"text/plain", "text/html"})
            nested == SelectSeq(parts, LAMBDA p : p.mimeType = "multipart/alternative")[1]
            children == IF nested.parts = None THEN <<>> ELSE nested.parts[1]
            html == ContentOf(siblings, "text/html")
            plain == ContentOf(siblings, "text/plain")
        IN (ContentOf(children, "text/html") = <<>> /\ ContentOf(children, "text/plain") = <<>>) =>
                FetchedBody = IF html # <<>> THEN from_read(html)
                              ELSE IF plain # <<>> THEN plain
                              ELSE Sentinel

---------------------------------------------------------------------------
(* Properties of the loop's bookkeeping, over Spec *)

NavigationKeys == {"up", "down", "pgup", "pgdn"}

\* the status is one that a mark-read or an unsubscribe event leaves
ShowsActionOutcome(status) ==
    /\ status # <<>>
    /\ <<status[1]>> \in {MarkedAsRead, ErrorMarking, ErrorUnsubscribing, LinkOpened,
                          MailtoNotice, UnsupportedMethod, NoLinkFound, NoEmailSelected}

\* C24: after a handled move or scroll event the status no longer shows the
\* outcome of an earlier mark-read or unsubscribe event; after a mark-read or an
\* unsubscribe event it shows the outcome of that event
C24_StatusIsLastOutcome ==
    /\ (last.key \in NavigationKeys /\ pc = "running") => ~ShowsActionOutcome(status_message)
    /\ last.key = "r" =>
            status_message = MarkReadStatus(
                App_mark_as_read(last.emails, last.current_index, last.outcome).result)
    /\ last.key = "u" =>
            status_message = UnsubscribeStatus(
                App_unsubscribe(last.emails, last.current_index, last.outcome))

\* C25: a mark-read whose remote call returned Ok removes the message at the
\* cursor, the one whose id was sent, and keeps every other message as it was and
\* in its order; a mark-read that removes nothing, and every other event, leaves
\* emails as it was
C25_RemovalIsOnlyChange ==
    /\ (last.key \notin {"r", "start"}) => emails = last.emails
    /\ last.key = "r" =>
        LET i == last.current_index + 1 IN
        IF RemoteCallReturnedOk /\ Selected(last.emails, last.current_index) # None
        THEN /\ Len(emails) = Len(last.emails) - 1
             /\ \A k \in 1..Len(emails) :
                    emails[k] = IF k < i THEN last.emails[k] ELSE last.emails[k + 1]
             /\ \E n \in 1..Len(last.trace) :
                    /\ last.trace[n] = Ev("call", last.emails[i].id)
                    /\ Count(last.trace, "call") = 1
             /\ Count(last.trace, "remove") = 1
        ELSE emails = last.emails /\ Count(last.trace, "remove") = 0

\* the first of three messages was marked read and the two others moved up
C25_Witness ==
    /\ last.key = "r"
    /\ Len(last.emails) = 3
    /\ last.current_index = 0
    /\ emails = Tail(last.emails)

\* C27: a mark-read event leaves the status "Email marked as read." only when a
\* remote call was made and returned Ok and a message was removed; on an empty
\* store it makes no call, changes nothing and does not report success
C27_SuccessOnlyAfterRemoval ==
    last.key = "r" =>
        /\ status_message = MarkedAsRead =>
                /\ Count(last.trace, "ret_ok") = 1
                /\ Len(emails) = Len(last.emails) - 1
        /\ last.emails = <<>> =>
                /\ Count(last.trace, "call") = 0
                /\ emails = <<>>
                /\ status_message # MarkedAsRead

---------------------------------------------------------------------------
(* Properties of the locks, over Spec and SpecStart *)

\* number of client guards alive after the first n events of a trace
RECURSIVE ClientGuards(_, _)
ClientGuards(t, n) ==
    IF n = 0 THEN 0
    ELSE ClientGuards(t, n - 1)
         + (IF t[n].op = "lock_client" THEN 1 ELSE 0)
         - (IF t[n].op = "unlock_client" THEN 1 ELSE 0)

\* C28: at every try_lock of the render pass no app guard is alive
C28_RenderFindsLockFree ==
    \A n \in 1..Len(last.trace) :
        last.trace[n].op = "try_lock_app" => AppGuards(last.trace, n - 1) = 0

\* a mark-read awaited the remote call under the app lock, and the render pass
\* that follows took the lock
C28_Witness ==
    /\ last.key = "r"
    /\ Count(last.trace, "call") = 1
    /\ \E n \in 1..Len(last.trace) :
            /\ last.trace[n].op = "try_lock_app"
            /\ AppGuards(last.trace, n - 1) = 0
            /\ AppGuards(last.trace, n) = 1

\* the client lock is taken with the app lock held and no client guard alive
ClientLockUnderAppLock(t) ==
    \A n \in 1..Len(t) :
        t[n].op = "lock_client" =>
            (AppGuards(t, n - 1) = 1 /\ ClientGuards(t, n - 1) = 0)

\* the app lock is never taken with a client guard alive
NoAppLockUnderClientLock(t) ==
    \A n \in 1..Len(t) :
        t[n].op \in {"lock_app", "try_lock_app"} => ClientGuards(t, n - 1) = 0

\* both guards are alive from the call to its return
BothHeldAcrossCall(t) ==
    \A n \in 1..Len(t) :
        t[n].op \in {"call", "ret_ok", "ret_err"} =>
            (AppGuards(t, n - 1) = 1 /\ ClientGuards(t, n - 1) = 1)

AllReleased(t) == AppGuards(t, Len(t)) = 0 /\ ClientGuards(t, Len(t)) = 0

\* C29 as stated: the client lock is only ever taken with the app lock held, never
\* the reverse, both are held across the remote call, and both are released when
\* the event is done
C29_ClientLockOnlyUnderAppLock ==
    /\ ClientLockUnderAppLock(last.trace)
    /\ NoAppLockUnderClientLock(last.trace)
    /\ last.key = "r" => BothHeldAcrossCall(last.trace)
    /\ AllReleased(last.trace)

\* C29 as amended: inside the loop the client lock is only taken with the app lock
\* held, both are held across the mark-read call and both are released on every
\* path before the next event; at startup, before the app mutex exists, the client
\* lock is taken alone for the fetch and released before the loop; the app lock is
\* never taken with the client lock held
C29_LoopLockDiscipline ==
    /\ last.key \notin {"start", "boot"} => ClientLockUnderAppLock(last.trace)
    /\ last.key = "start" =>
            \A n \in 1..Len(last.trace) :
                last.trace[n].op \in {"lock_client", "call", "ret_ok", "ret_err"} =>
                    AppGuards(last.trace, n - 1) = 0
    /\ NoAppLockUnderClientLock(last.trace)
    /\ last.key = "r" => BothHeldAcrossCall(last.trace)
    /\ AllReleased(last.trace)

\* a mark-read whose remote call failed took both locks and released both
C29_Witness ==
    /\ last.key = "r"
    /\ Count(last.trace, "ret_err") = 1
    /\ Count(last.trace, "lock_client") = 1
    /\ AllReleased(last.trace)

\* C30: a scroll-down with a message selected and the terminal size known goes on
\* with the loop, whatever the height: height - 6 neither panics nor wraps around,
\* and the offset it leaves is at most the line count of the body
C30_VisibleHeightNeverUnderflows ==
    (/\ last.key = "pgdn"
     /\ rev # "main"
     /\ Selected(last.emails, last.current_index) # None
     /\ last.outcome # "size_err") =>
        /\ pc = "running"
        /\ last.outcome = "size_ok"
        /\ term_height - ChromeRows >= 0
        /\ scroll_offset <= LinesCount(last.emails[last.current_index + 1].body)

---------------------------------------------------------------------------
(* The scroll bound as an invariant, over Spec *)

\* the offset is within the body of the selected message, and 0 on an empty store
ScrollBound ==
    IF Selected(emails, current_index) = None
    THEN scroll_offset = 0
    ELSE scroll_offset <=
            Max(0, LinesCount(emails[current_index + 1].body)
                    - Max(0, term_height - ChromeRows))

\* C31: the scroll bound holds at the start and every event that leaves the
\* terminal height as it is keeps it: scroll_offset is at most
\* max(0, lineCount(selected body) - visibleHeight), and 0 on an empty store, in
\* every state reached with a fixed terminal height
C31_ScrollBoundInvariant ==
    ScrollBound /\ [][(term_height' = term_height /\ ScrollBound) => ScrollBound']_vars

====
